---- MODULE Spec2Model ----
(***************************************************************************)
(* A model of pymc3/distributions/continuous.py: the parameter resolvers   *)
(* (get_tau_sd, Beta/Gamma.get_alpha_beta, Wald.get_mu_lam_phi), the       *)
(* rejection sampler Bounded._random, and the logp methods of the           *)
(* distributions with the guard (bound) each one applies, their random      *)
(* methods, and the construction, logp and random of Bounded.               *)
(*                                                                         *)
(* Numbers are Python scalars: a value has a type tag ("int" or "float")   *)
(* and an exact rational magnitude n/d; None is a value of its own.        *)
(* Floating rounding is not modelled: a float is the rational it denotes.  *)
(***************************************************************************)
EXTENDS Integers, Sequences, FiniteSets, TLC

VARIABLES
    fn, args, ret, again,                 \* the parameter resolvers
    pc, size, lower, upper, samples, i, n, sample, written, batches, result,
                                          \* one call of Bounded._random
    self, value, lp,                      \* a constructed distribution and its logp
    point, rnd                            \* the point of the caller, the last random call

resolverVars == <<fn, args, ret, again>>
boundedVars == <<pc, size, lower, upper, samples, i, n, sample, written, batches, result>>
logpVars == <<self, value, lp, point, rnd>>
vars == <<resolverVars, boundedVars, logpVars>>

(***************************************************************************)
(* Bounds of the model.                                                    *)
(***************************************************************************)
\* Integer arguments range over -1..MaxNum, float arguments over k/2, k in -1..MaxNum.
MaxNum == 2
\* Draws of the inner distribution of a Bounded, and its finite bounds, range over 0..MaxVal.
MaxVal == 3
\* The requested size of a Bounded._random call is None or 0..MaxSize.
MaxSize == 3
\* The batches of a Bounded._random call are counted up to MaxBatches.
MaxBatches == 2
\* The random method of a constructed distribution is asked for MaxCallSize values at most.
MaxCallSize == 1

(***************************************************************************)
(* Python numbers.                                                         *)
(***************************************************************************)
NoneV == [t |-> "None", n |-> 0, d |-> 1]
IsNone(x) == x.t = "None"

Abs(a) == IF a < 0 THEN -a ELSE a

RECURSIVE Gcd(_, _)
Gcd(a, b) == IF b = 0 THEN a ELSE Gcd(b, a % b)

\* the value n/d of type t, in lowest terms with a positive denominator
Norm(t, num, den) ==
    LET s == IF den < 0 THEN -1 ELSE 1
        g == Gcd(Abs(num), Abs(den))
    IN  [t |-> t, n |-> (s * num) \div g, d |-> (s * den) \div g]

PyInt(k) == [t |-> "int", n |-> k, d |-> 1]
PyFloat(num, den) == Norm("float", num, den)

\* the type of a + b, a - b, a * b: int only when both operands are int
ArithT(a, b) == IF a.t = "int" /\ b.t = "int" THEN "int" ELSE "float"

Add(a, b) == Norm(ArithT(a, b), a.n * b.d + b.n * a.d, a.d * b.d)
Sub(a, b) == Norm(ArithT(a, b), a.n * b.d - b.n * a.d, a.d * b.d)
Mul(a, b) == Norm(ArithT(a, b), a.n * b.n, a.d * b.d)
\* a / b under "from __future__ import division": always a float; b is not zero
TrueDiv(a, b) == Norm("float", a.n * b.d, a.d * b.n)
IsZero(a) == a.n = 0
NumEq(a, b) == a.n = b.n /\ a.d = b.d
NumGT(a, b) == a.n * b.d > b.n * a.d
NumGE(a, b) == a.n * b.d >= b.n * a.d
IsFloat(a) == a.t = "float"

Isqrt(k) == CHOOSE r \in 0..k : r * r = k
\* a ** 2 (an int power of an int is an int)
Pow2(a) == Mul(a, a)
\* a ** -2. (a float exponent gives a float); a is not zero
PowNeg2(a) == Norm("float", a.d * a.d, a.n * a.n)
\* a ** -.5; a is positive with an exact rational root
PowNegHalf(a) == Norm("float", Isqrt(a.d), Isqrt(a.n))

(***************************************************************************)
(* Outcomes of a call: a returned tuple, or the exception raised.          *)
(***************************************************************************)
Return(v) == [st |-> "ok", v |-> v]
Raise(e) == [st |-> e, v |-> <<>>]
NoCall == [st |-> "none", v |-> <<>>]
Raised(r) == r.st \in {"ValueError", "ZeroDivisionError"}

(***************************************************************************)
(* Arguments of the resolvers.                                             *)
(***************************************************************************)
Ints == {PyInt(k) : k \in -1..MaxNum}
Floats == {PyFloat(k, 2) : k \in -1..MaxNum}
Nums == Ints \cup Floats
\* an optional argument: None when it is not supplied
OptNums == {NoneV} \cup Nums
\* precisions with an exact root, so that tau ** -.5 is a rational
TauNums == {Mul(x, x) : x \in Nums}
OptTauNums == {NoneV} \cup TauNums

(***************************************************************************)
(* get_tau_sd(tau=None, sd=None)                                           *)
(***************************************************************************)
Float1 == PyFloat(1, 1)

\* lines 73-78: tau = 1. * tau; sd = 1. * sd; return (tau, sd)
CastTauSd(tau, sd) == Return(<<Mul(Float1, tau), Mul(Float1, sd)>>)

\* get_tau_sd without the check of line 68: sd wins when both are passed
get_tau_sd_no_conflict(tau, sd) ==
    IF IsNone(sd)
    THEN IF IsNone(tau)
         THEN CastTauSd(Float1, Float1)
         ELSE IF IsZero(tau)
              THEN Raise("ZeroDivisionError")
              ELSE CastTauSd(tau, PowNegHalf(tau))
    ELSE IF IsZero(sd)
         THEN Raise("ZeroDivisionError")
         ELSE CastTauSd(PowNeg2(sd), sd)

get_tau_sd(tau, sd) ==
    IF IsNone(tau)
    THEN IF IsNone(sd)
         THEN CastTauSd(Float1, Float1)
         ELSE IF IsZero(sd)
              THEN Raise("ZeroDivisionError")            \* sd ** -2. of a zero
              ELSE CastTauSd(PowNeg2(sd), sd)
    ELSE IF ~IsNone(sd)
         THEN Raise("ValueError")
         ELSE IF IsZero(tau)
              THEN Raise("ZeroDivisionError")            \* tau ** -.5 of a zero
              ELSE CastTauSd(tau, PowNegHalf(tau))

(***************************************************************************)
(* Beta.get_alpha_beta and Gamma.get_alpha_beta                            *)
(***************************************************************************)
\* Beta.get_alpha_beta with the else branch of line 420 falling through to the return
Beta_get_alpha_beta_no_raise(alpha, beta, mu, sd) ==
    IF ~IsNone(alpha) /\ ~IsNone(beta)
    THEN Return(<<alpha, beta>>)
    ELSE IF ~IsNone(mu) /\ ~IsNone(sd)
         THEN IF IsZero(sd)
              THEN Raise("ZeroDivisionError")
              ELSE LET kappa == Sub(TrueDiv(Mul(mu, Sub(PyInt(1), mu)), Pow2(sd)),
                                    PyInt(1))
                   IN  Return(<<Mul(mu, kappa), Mul(Sub(PyInt(1), mu), kappa)>>)
         ELSE Return(<<alpha, beta>>)

Beta_get_alpha_beta(alpha, beta, mu, sd) ==
    IF ~IsNone(alpha) /\ ~IsNone(beta)
    THEN Return(<<alpha, beta>>)
    ELSE IF ~IsNone(mu) /\ ~IsNone(sd)
         THEN IF IsZero(sd)
              THEN Raise("ZeroDivisionError")            \* ... / sd ** 2
              ELSE LET kappa == Sub(TrueDiv(Mul(mu, Sub(PyInt(1), mu)), Pow2(sd)),
                                    PyInt(1))
                   IN  Return(<<Mul(mu, kappa), Mul(Sub(PyInt(1), mu), kappa)>>)
         ELSE Raise("ValueError")

Gamma_get_alpha_beta(alpha, beta, mu, sd) ==
    IF ~IsNone(alpha) /\ ~IsNone(beta)
    THEN Return(<<alpha, beta>>)
    ELSE IF ~IsNone(mu) /\ ~IsNone(sd)
         THEN IF IsZero(sd)
              THEN Raise("ZeroDivisionError")            \* ... / sd ** 2
              ELSE Return(<<TrueDiv(Pow2(mu), Pow2(sd)), TrueDiv(mu, Pow2(sd))>>)
         ELSE Raise("ValueError")

(***************************************************************************)
(* Wald.get_mu_lam_phi(mu, lam, phi)                                       *)
(***************************************************************************)
\* Wald.get_mu_lam_phi accepting all three parameters (no fall-through to the raise)
Wald_get_mu_lam_phi_all_three(mu, lam, phi) ==
    IF IsNone(mu)
    THEN IF ~IsNone(lam) /\ ~IsNone(phi)
         THEN IF IsZero(phi)
              THEN Raise("ZeroDivisionError")
              ELSE Return(<<TrueDiv(lam, phi), lam, phi>>)
         ELSE Raise("ValueError")
    ELSE IF IsNone(lam)
         THEN IF IsNone(phi)
              THEN IF IsZero(mu)
                   THEN Raise("ZeroDivisionError")
                   ELSE Return(<<mu, Float1, TrueDiv(Float1, mu)>>)
              ELSE Return(<<mu, Mul(mu, phi), phi>>)
         ELSE IF IsNone(phi)
              THEN IF IsZero(mu)
                   THEN Raise("ZeroDivisionError")
                   ELSE Return(<<mu, lam, TrueDiv(lam, mu)>>)
              ELSE Return(<<mu, lam, phi>>)

\* Wald.get_mu_lam_phi with phi = mu / lam for lam / mu on line 323
Wald_get_mu_lam_phi_inverted(mu, lam, phi) ==
    IF IsNone(mu)
    THEN IF ~IsNone(lam) /\ ~IsNone(phi)
         THEN IF IsZero(phi)
              THEN Raise("ZeroDivisionError")
              ELSE Return(<<TrueDiv(lam, phi), lam, phi>>)
         ELSE Raise("ValueError")
    ELSE IF IsNone(lam)
         THEN IF IsNone(phi)
              THEN IF IsZero(mu)
                   THEN Raise("ZeroDivisionError")
                   ELSE Return(<<mu, Float1, TrueDiv(Float1, mu)>>)
              ELSE Return(<<mu, Mul(mu, phi), phi>>)
         ELSE IF IsNone(phi)
              THEN IF IsZero(lam)
                   THEN Raise("ZeroDivisionError")
                   ELSE Return(<<mu, lam, TrueDiv(mu, lam)>>)
              ELSE Raise("ValueError")

Wald_get_mu_lam_phi(mu, lam, phi) ==
    IF IsNone(mu)
    THEN IF ~IsNone(lam) /\ ~IsNone(phi)
         THEN IF IsZero(phi)
              THEN Raise("ZeroDivisionError")            \* lam / phi
              ELSE Return(<<TrueDiv(lam, phi), lam, phi>>)
         ELSE Raise("ValueError")
    ELSE IF IsNone(lam)
         THEN IF IsNone(phi)
              THEN IF IsZero(mu)
                   THEN Raise("ZeroDivisionError")       \* 1. / mu
                   ELSE Return(<<mu, Float1, TrueDiv(Float1, mu)>>)
              ELSE Return(<<mu, Mul(mu, phi), phi>>)
         ELSE IF IsNone(phi)
              THEN IF IsZero(mu)
                   THEN Raise("ZeroDivisionError")       \* lam / mu
                   ELSE Return(<<mu, lam, TrueDiv(lam, mu)>>)
              ELSE Raise("ValueError")

\* The ways of giving a resolved triple back to the resolver (docstring Notes):
\* the arguments each of the four combinations supplies.
WaldCombos == {"mu", "mu_lam", "mu_phi", "lam_phi"}
WaldArgsOf(c, t) ==
    CASE c = "mu"      -> <<t[1], NoneV, NoneV>>
      [] c = "mu_lam"  -> <<t[1], t[2], NoneV>>
      [] c = "mu_phi"  -> <<t[1], NoneV, t[3]>>
      [] c = "lam_phi" -> <<NoneV, t[2], t[3]>>

(***************************************************************************)
(* The resolvers as operations: a call is made with some arguments (fn,    *)
(* args), runs, and leaves its outcome in ret.                             *)
(***************************************************************************)
ResolverFns == {"get_tau_sd", "Beta.get_alpha_beta", "Gamma.get_alpha_beta",
                "Wald.get_mu_lam_phi"}
ArgsOf(f) ==
    CASE f = "get_tau_sd"           -> OptTauNums \X OptNums
      [] f = "Beta.get_alpha_beta"  -> OptNums \X OptNums \X OptNums \X OptNums
      [] f = "Gamma.get_alpha_beta" -> OptNums \X OptNums \X OptNums \X OptNums
      [] f = "Wald.get_mu_lam_phi"  -> OptNums \X OptNums \X OptNums

NoAgain == [c |-> "none", r |-> NoCall]

ResolverInit ==
    /\ fn \in ResolverFns
    /\ args \in ArgsOf(fn)
    /\ ret = NoCall
    /\ again = NoAgain

\* no resolver call is under way
ResolverIdle ==
    /\ fn = "none"
    /\ args = <<>>
    /\ ret = NoCall
    /\ again = NoAgain

Call_get_tau_sd ==
    /\ fn = "get_tau_sd"
    /\ ret = NoCall
    /\ ret' = get_tau_sd(args[1], args[2])
    /\ UNCHANGED <<fn, args, again, boundedVars, logpVars>>

Call_Beta_get_alpha_beta ==
    /\ fn = "Beta.get_alpha_beta"
    /\ ret = NoCall
    /\ ret' = Beta_get_alpha_beta(args[1], args[2], args[3], args[4])
    /\ UNCHANGED <<fn, args, again, boundedVars, logpVars>>

Call_Gamma_get_alpha_beta ==
    /\ fn = "Gamma.get_alpha_beta"
    /\ ret = NoCall
    /\ ret' = Gamma_get_alpha_beta(args[1], args[2], args[3], args[4])
    /\ UNCHANGED <<fn, args, again, boundedVars, logpVars>>

Call_Wald_get_mu_lam_phi ==
    /\ fn = "Wald.get_mu_lam_phi"
    /\ ret = NoCall
    /\ ret' = Wald_get_mu_lam_phi(args[1], args[2], args[3])
    /\ UNCHANGED <<fn, args, again, boundedVars, logpVars>>

\* A second call of Wald.get_mu_lam_phi, given the triple the first one resolved
\* through one of the four combinations (mu alone stands for lam = 1).
Call_Wald_again ==
    /\ fn = "Wald.get_mu_lam_phi"
    /\ ret.st = "ok"
    /\ again = NoAgain
    /\ \E c \in WaldCombos :
          /\ c = "mu" => NumEq(ret.v[2], Float1)
          /\ LET a == WaldArgsOf(c, ret.v)
             IN  again' = [c |-> c, r |-> Wald_get_mu_lam_phi(a[1], a[2], a[3])]
    /\ UNCHANGED <<fn, args, ret, boundedVars, logpVars>>

(***************************************************************************)
(* Bounded._random(lower, upper, point, size)                              *)
(*                                                                         *)
(* A bound is a finite number or an infinity; a draw of the inner          *)
(* distribution is a finite number.  A size is a shape: <<>> for None      *)
(* (np.zeros(None) is the 0-d array, one element once flattened) and       *)
(* <<k>> for the integer k.                                                *)
(***************************************************************************)
Fin(k) == [inf |-> 0, v |-> k]
NegInf == [inf |-> -1, v |-> 0]
PosInf == [inf |-> 1, v |-> 0]
\* x > b and x <= b for a finite x and a bound b
GtBound(x, b) == IF b.inf = 0 THEN x > b.v ELSE b.inf = -1
LeBound(x, b) == IF b.inf = 0 THEN x <= b.v ELSE b.inf = 1
GeBound(x, b) == IF b.inf = 0 THEN x >= b.v ELSE b.inf = -1

DrawVals == 0..MaxVal
Bounds == {NegInf, PosInf} \cup {Fin(k) : k \in DrawVals}
Sizes == {<<>>} \cup {<<k>> : k \in 0..MaxSize}

RECURSIVE Prod(_)
Prod(shape) == IF shape = <<>> THEN 1 ELSE Head(shape) * Prod(Tail(shape))

\* np.zeros(size).flatten()
Zeros(shape) == [k \in 1..Prod(shape) |-> 0]

\* the mask of line 1055 without its upper test
InRange_no_upper(x, lo, up) == GtBound(x, lo)

\* line 1055: np.logical_and(sample > lower, sample <= upper), for one draw
InRange(x, lo, up) == GtBound(x, lo) /\ LeBound(x, up)

\* line 1055: select = sample[mask], the kept draws in their order
RECURSIVE Select(_, _, _)
Select(s, lo, up) ==
    IF s = <<>> THEN <<>>
    ELSE IF InRange(Head(s), lo, up)
         THEN <<Head(s)>> \o Select(Tail(s), lo, up)
         ELSE Select(Tail(s), lo, up)

\* line 1056: samples[i:(i + len(select))] = select[:]  (i counts from 0).
\* The slice stops at the end of the buffer; numpy raises ValueError when the
\* slice and select differ in length.
SliceLen(buf, from, len) ==
    IF from + len <= Len(buf) THEN len
    ELSE IF from >= Len(buf) THEN 0 ELSE Len(buf) - from
SliceAssign(buf, from, sel) ==
    [k \in 1..Len(buf) |->
        IF k > from /\ k <= from + Len(sel) THEN sel[k - from] ELSE buf[k]]

\* the loop of line 1053 stopping one slot early
WhileCond_short(idx, buf) == idx < Len(buf) - 1

\* the loop of line 1053 with a cap on the batches drawn
WhileCond_capped(idx, buf) == idx < Len(buf) /\ batches < MaxBatches

\* the loop of line 1053 going round once more when the buffer is full
WhileCond_once_more(idx, buf) == idx <= Len(buf)

\* line 1053: while i < len(samples)
WhileCond(idx, buf) == idx < Len(buf)

\* a batch one larger than the slots left
BatchSize_one_more(req) == req + 1

\* line 1054: the batch asked of the inner distribution, self.dist.random(size=n)
BatchSize(req) == req

BoundedInit ==
    /\ pc = "call"
    /\ size \in Sizes
    /\ lower \in Bounds
    /\ upper \in Bounds
    /\ samples = <<>>
    /\ i = 0
    /\ n = 0
    /\ sample = <<>>
    /\ written = {}
    /\ batches = 0
    /\ result = [shape |-> <<>>, data |-> <<>>]

\* no Bounded._random call is under way
BoundedIdle ==
    /\ pc = "idle"
    /\ size = <<>>
    /\ lower = NegInf
    /\ upper = PosInf
    /\ samples = <<>>
    /\ i = 0
    /\ n = 0
    /\ sample = <<>>
    /\ written = {}
    /\ batches = 0
    /\ result = [shape |-> <<>>, data |-> <<>>]

\* lines 1051-1052
Enter ==
    /\ pc = "call"
    /\ samples' = Zeros(size)
    /\ i' = 0
    /\ n' = Len(Zeros(size))
    /\ pc' = "while"
    /\ UNCHANGED <<size, lower, upper, sample, written, batches, result,
                   resolverVars, logpVars>>

\* line 1053, the test holds: line 1054 draws a batch of n values
Draw ==
    /\ pc = "while"
    /\ WhileCond(i, samples)
    /\ sample' \in [1..BatchSize(n) -> DrawVals]
    /\ batches' = IF batches < MaxBatches THEN batches + 1 ELSE batches
    /\ pc' = "select"
    /\ UNCHANGED <<size, lower, upper, samples, i, n, written, result,
                   resolverVars, logpVars>>

\* lines 1055-1058; sample is dead once select is stored.  A select of one
\* value broadcasts into an empty slice (nothing is stored); any other
\* mismatch of lengths raises.
Store ==
    /\ pc = "select"
    /\ LET select == Select(sample, lower, upper)
           fits == SliceLen(samples, i, Len(select)) = Len(select)
       IN  IF fits \/ Len(select) = 1
           THEN /\ samples' = IF fits THEN SliceAssign(samples, i, select) ELSE samples
                /\ written' = written \cup {k \in 1..Len(samples) :
                                               k > i /\ k <= i + Len(select)}
                /\ i' = i + Len(select)
                /\ n' = n - Len(select)
                /\ pc' = "while"
           ELSE /\ pc' = "raised"
                /\ UNCHANGED <<samples, written, i, n>>
    /\ sample' = <<>>
    /\ UNCHANGED <<size, lower, upper, batches, result, resolverVars, logpVars>>

\* line 1053, the test fails: lines 1059-1062 return the buffer, reshaped to size
RandomReturn ==
    /\ pc = "while"
    /\ ~WhileCond(i, samples)
    /\ result' = [shape |-> size, data |-> samples]
    /\ pc' = "done"
    /\ UNCHANGED <<size, lower, upper, samples, i, n, sample, written, batches,
                   resolverVars, logpVars>>

(***************************************************************************)
(* bound(logp, *conditions) of dist_math: logp where every condition       *)
(* holds, the sentinel (-inf) elsewhere.                                   *)
(***************************************************************************)
Sentinel == [k |-> "sentinel", f |-> "", a |-> <<>>]
\* the log-density formula of class f, applied to the values it reads
Density(f, a) == [k |-> "density", f |-> f, a |-> a]
bound(logp, conditions) ==
    IF \A j \in 1..Len(conditions) : conditions[j] THEN logp ELSE Sentinel

Int0 == PyInt(0)
Int1 == PyInt(1)
Int2 == PyInt(2)
Positive(x) == NumGT(x, Int0)
\* value <= np.pi and value >= -np.pi, for a rational of small denominator
LePi(x) == 113 * x.n <= 355 * x.d
GeNegPi(x) == 113 * x.n >= -355 * x.d

(***************************************************************************)
(* The constructors: the attributes logp reads, or the exception raised    *)
(* while the attributes and moments are computed (a Python scalar          *)
(* divided by zero).                                                       *)
(***************************************************************************)
Uniform_init(kw) == Return([lower |-> kw[1], upper |-> kw[2]])

Flat_init(kw) == Return([median |-> Int0])

Normal_init(kw) ==
    LET r == get_tau_sd(kw[2], kw[3])
    IN  IF r.st = "ok"
        THEN Return([mu |-> kw[1], tau |-> r.v[1], sd |-> r.v[2]])
        ELSE Raise(r.st)

HalfNormal_init(kw) ==
    LET r == get_tau_sd(kw[1], kw[2])
    IN  IF r.st = "ok"
        THEN Return([tau |-> r.v[1], sd |-> r.v[2]])
        ELSE Raise(r.st)

Wald_init(kw) ==
    LET r == Wald_get_mu_lam_phi(kw[1], kw[2], kw[3])
    IN  IF r.st # "ok" THEN Raise(r.st)
        ELSE IF IsZero(r.v[2])
             THEN Raise("ZeroDivisionError")             \* 1.5 * self.mu / self.lam
             ELSE Return([mu |-> r.v[1], lam |-> r.v[2], phi |-> r.v[3],
                          alpha |-> kw[4]])

Beta_init(kw) ==
    LET r == Beta_get_alpha_beta(kw[1], kw[2], kw[3], kw[4])
    IN  IF r.st # "ok" THEN Raise(r.st)
        ELSE LET ab == Add(r.v[1], r.v[2])
             IN  IF IsZero(ab) \/ IsZero(Add(ab, Int1))
                 THEN Raise("ZeroDivisionError")         \* alpha / (alpha + beta), variance
                 ELSE Return([alpha |-> r.v[1], beta |-> r.v[2]])

Exponential_init(kw) ==
    IF IsZero(kw[1])
    THEN Raise("ZeroDivisionError")                      \* 1. / lam
    ELSE Return([lam |-> kw[1]])

Laplace_init(kw) == Return([mu |-> kw[1], b |-> kw[2]])

Lognormal_init(kw) ==
    IF IsZero(kw[2])
    THEN Raise("ZeroDivisionError")                      \* 1. / (2 * tau)
    ELSE Return([mu |-> kw[1], tau |-> kw[2]])

StudentT_init(kw) ==
    LET r == get_tau_sd(kw[3], kw[4])
    IN  IF r.st = "ok"
        THEN Return([nu |-> kw[1], mu |-> kw[2], lam |-> r.v[1], sd |-> r.v[2]])
        ELSE Raise(r.st)

Pareto_init(kw) ==
    IF IsZero(kw[1]) \/ NumEq(kw[1], Int1) \/ NumEq(kw[1], Int2)
    THEN Raise("ZeroDivisionError")      \* 1. / alpha, / (alpha - 1.), / (alpha - 2.)
    ELSE Return([alpha |-> kw[1], m |-> kw[2]])

Cauchy_init(kw) == Return([alpha |-> kw[1], beta |-> kw[2]])

HalfCauchy_init(kw) == Return([beta |-> kw[1]])

Gamma_init(kw) ==
    LET r == Gamma_get_alpha_beta(kw[1], kw[2], kw[3], kw[4])
    IN  IF r.st # "ok" THEN Raise(r.st)
        ELSE IF IsZero(r.v[2])
             THEN Raise("ZeroDivisionError")             \* alpha / beta
             ELSE Return([alpha |-> r.v[1], beta |-> r.v[2]])

\* np.inf
PyInf == [t |-> "float", n |-> 1, d |-> 0]

\* line 904: (alpha > 1) * beta / (alpha - 1.) or np.inf, for alpha # 1.  The
\* comparison is a bool, 0 or 1 as a factor; a quotient that is zero is
\* false, and `or` gives np.inf in its place.
InverseGamma_mean(alpha, beta) ==
    LET gt1 == IF NumGT(alpha, Int1) THEN Int1 ELSE Int0
        q == TrueDiv(Mul(gt1, beta), Sub(alpha, Float1))
    IN  IF IsZero(q) THEN PyInf ELSE q

InverseGamma_init(kw) ==
    IF IsZero(kw[1]) \/ NumEq(kw[1], Int1) \/ NumEq(kw[1], PyInt(-1))
    THEN Raise("ZeroDivisionError")      \* / (alpha - 1.), / (alpha + 1.), / (alpha * ...)
    ELSE Return([alpha |-> kw[1], beta |-> kw[2],
                 mean |-> InverseGamma_mean(kw[1], kw[2])])

\* ChiSquared passing the scale 2 of the distribution where Gamma takes a rate
ChiSquared_init_scale(kw) ==
    LET r == Gamma_init(<<TrueDiv(kw[1], PyFloat(2, 1)), PyFloat(2, 1), NoneV, NoneV>>)
    IN  IF r.st # "ok" THEN Raise(r.st)
        ELSE Return([nu |-> kw[1], alpha |-> r.v.alpha, beta |-> r.v.beta])

\* super(ChiSquared, self).__init__(alpha=nu / 2., beta=0.5)
ChiSquared_init(kw) ==
    LET r == Gamma_init(<<TrueDiv(kw[1], PyFloat(2, 1)), PyFloat(1, 2), NoneV, NoneV>>)
    IN  IF r.st # "ok" THEN Raise(r.st)
        ELSE Return([nu |-> kw[1], alpha |-> r.v.alpha, beta |-> r.v.beta])

Weibull_init(kw) ==
    IF IsZero(kw[1])
    THEN Raise("ZeroDivisionError")                      \* 1. / alpha
    ELSE Return([alpha |-> kw[1], beta |-> kw[2]])

ExGaussian_init(kw) == Return([mu |-> kw[1], sigma |-> kw[2], nu |-> kw[3]])

VonMises_init(kw) == Return([mu |-> kw[1], kappa |-> kw[2]])

(***************************************************************************)
(* The logp methods.                                                       *)
(***************************************************************************)
\* Uniform.logp with the lower endpoint left out of the support
Uniform_logp_open(a, x) ==
    bound(Density("Uniform", <<Sub(a.upper, a.lower)>>),
          <<NumGT(x, a.lower), NumGE(a.upper, x)>>)

Uniform_logp(a, x) ==
    bound(Density("Uniform", <<Sub(a.upper, a.lower)>>),
          <<NumGE(x, a.lower), NumGE(a.upper, x)>>)

\* tt.zeros_like(value): the constant zero, of the shape of the value
zeros_like(x) == [k |-> "zero", f |-> "", a |-> <<>>]

Flat_logp(a, x) == zeros_like(x)

Normal_logp(a, x) ==
    bound(Density("Normal", <<a.tau, a.mu, x>>),
          <<Positive(a.tau), Positive(a.sd)>>)

HalfNormal_logp(a, x) ==
    bound(Density("HalfNormal", <<a.tau, x>>),
          <<NumGE(x, Int0), Positive(a.tau), Positive(a.sd)>>)

\* the conditions of Wald.logp with alpha >= 0 left out
Wald_conditions_any_alpha(a, x) ==
    <<Positive(x), Positive(Sub(x, a.alpha)),
      Positive(a.mu), Positive(a.lam), TRUE>>

\* lines 355-356: value > 0, value - alpha > 0, mu > 0, lam > 0, alpha >= 0
Wald_conditions(a, x) ==
    <<Positive(x), Positive(Sub(x, a.alpha)),
      Positive(a.mu), Positive(a.lam), NumGE(a.alpha, Int0)>>

Wald_logp(a, x) ==
    bound(Density("Wald", <<a.mu, a.lam, a.alpha, x>>), Wald_conditions(a, x))

Beta_logp(a, x) ==
    bound(Density("Beta", <<a.alpha, a.beta, x>>),
          <<NumGE(x, Int0), NumGE(Int1, x), Positive(a.alpha), Positive(a.beta)>>)

Exponential_logp(a, x) ==
    bound(Density("Exponential", <<a.lam, x>>), <<Positive(x), Positive(a.lam)>>)

Laplace_logp(a, x) == Density("Laplace", <<a.mu, a.b, x>>)

Lognormal_logp(a, x) ==
    bound(Density("Lognormal", <<a.mu, a.tau, x>>), <<Positive(a.tau)>>)

StudentT_logp(a, x) ==
    bound(Density("StudentT", <<a.nu, a.mu, a.lam, x>>),
          <<Positive(a.lam), Positive(a.nu), Positive(a.sd)>>)

Pareto_logp(a, x) ==
    bound(Density("Pareto", <<a.alpha, a.m, x>>),
          <<NumGE(x, a.m), Positive(a.alpha), Positive(a.m)>>)

Cauchy_logp(a, x) ==
    bound(Density("Cauchy", <<a.alpha, a.beta, x>>), <<Positive(a.beta)>>)

HalfCauchy_logp(a, x) ==
    bound(Density("HalfCauchy", <<a.beta, x>>), <<NumGE(x, Int0), Positive(a.beta)>>)

Gamma_logp(a, x) ==
    bound(Density("Gamma", <<a.alpha, a.beta, x>>),
          <<NumGE(x, Int0), Positive(a.alpha), Positive(a.beta)>>)

InverseGamma_logp(a, x) ==
    bound(Density("InverseGamma", <<a.alpha, a.beta, x>>),
          <<Positive(x), Positive(a.alpha), Positive(a.beta)>>)

Weibull_logp(a, x) ==
    bound(Density("Weibull", <<a.alpha, a.beta, x>>),
          <<NumGE(x, Int0), Positive(a.alpha), Positive(a.beta)>>)

\* tt.switch(tt.gt(nu, 0.05 * sigma), ..., ...): the formula has two branches
ExGaussian_logp(a, x) ==
    bound(Density(IF NumGT(a.nu, Mul(PyFloat(1, 20), a.sigma))
                  THEN "ExGaussian.exgaus" ELSE "ExGaussian.normal",
                  <<a.mu, a.sigma, a.nu, x>>),
          <<Positive(a.sigma), Positive(a.nu)>>)

VonMises_logp(a, x) ==
    bound(Density("VonMises", <<a.mu, a.kappa, x>>),
          <<GeNegPi(x), LePi(x), NumGE(a.kappa, Int0)>>)

(***************************************************************************)
(* The random methods.  draw_values(params, point) gives the values of     *)
(* the parameters: a literal is returned as it is (every parameter of the  *)
(* model is a literal).  generate_samples(generator, *args, size) hands    *)
(* the resolved values and the size to the generator: its outcome is the   *)
(* sampling path, the generator with what it is given (the shape of every  *)
(* distribution of the model is scalar).                                   *)
(***************************************************************************)
draw_values(params, p) == params
generate_samples(generator, a, sz) ==
    Return([rvs |-> generator, a |-> a, size |-> sz])

Uniform_random(a, p, sz) ==
    LET v == draw_values(<<a.lower, a.upper>>, p)
    IN  generate_samples("stats.uniform.rvs", <<v[1], Sub(v[2], v[1])>>, sz)

\* Flat.random giving draws of a generator
Flat_random_samples(a, p, sz) == generate_samples("stats.uniform.rvs", <<>>, sz)

Flat_random(a, p, sz) == Raise("ValueError")

Normal_random(a, p, sz) ==
    LET v == draw_values(<<a.mu, a.tau, a.sd>>, p)
    IN  generate_samples("stats.norm.rvs", <<v[1], PowNegHalf(v[2])>>, sz)

HalfNormal_random(a, p, sz) ==
    LET v == draw_values(<<a.tau>>, p)
    IN  generate_samples("stats.halfnorm.rvs", <<PyFloat(0, 1), PowNegHalf(v[1])>>, sz)

Wald_random(a, p, sz) ==
    LET v == draw_values(<<a.mu, a.lam, a.alpha>>, p)
    IN  generate_samples("Wald._random", <<v[1], v[2], v[3]>>, sz)

Beta_random(a, p, sz) ==
    LET v == draw_values(<<a.alpha, a.beta>>, p)
    IN  generate_samples("stats.beta.rvs", <<v[1], v[2]>>, sz)

Exponential_random(a, p, sz) ==
    LET v == draw_values(<<a.lam>>, p)
    IN  generate_samples("np.random.exponential", <<TrueDiv(Float1, v[1])>>, sz)

Laplace_random(a, p, sz) ==
    LET v == draw_values(<<a.mu, a.b>>, p)
    IN  generate_samples("np.random.laplace", <<v[1], v[2]>>, sz)

Lognormal_random(a, p, sz) ==
    LET v == draw_values(<<a.mu, a.tau>>, p)
    IN  generate_samples("Lognormal._random", <<v[1], v[2]>>, sz)

StudentT_random(a, p, sz) ==
    LET v == draw_values(<<a.nu, a.mu, a.lam>>, p)
    IN  generate_samples("stats.t.rvs", <<v[1], v[2], PowNegHalf(v[3])>>, sz)

Pareto_random(a, p, sz) ==
    LET v == draw_values(<<a.alpha, a.m>>, p)
    IN  generate_samples("Pareto._random", <<v[1], v[2]>>, sz)

Cauchy_random(a, p, sz) ==
    LET v == draw_values(<<a.alpha, a.beta>>, p)
    IN  generate_samples("Cauchy._random", <<v[1], v[2]>>, sz)

HalfCauchy_random(a, p, sz) ==
    LET v == draw_values(<<a.beta>>, p)
    IN  generate_samples("HalfCauchy._random", <<v[1]>>, sz)

Gamma_random(a, p, sz) ==
    LET v == draw_values(<<a.alpha, a.beta>>, p)
    IN  generate_samples("stats.gamma.rvs", <<v[1], TrueDiv(Float1, v[2])>>, sz)

InverseGamma_random(a, p, sz) ==
    LET v == draw_values(<<a.alpha, a.beta>>, p)
    IN  generate_samples("stats.invgamma.rvs", <<v[1], v[2]>>, sz)

Weibull_random(a, p, sz) ==
    LET v == draw_values(<<a.alpha, a.beta>>, p)
    IN  generate_samples("Weibull._random", <<v[1], v[2]>>, sz)

ExGaussian_random(a, p, sz) ==
    LET v == draw_values(<<a.mu, a.sigma, a.nu>>, p)
    IN  generate_samples("ExGaussian._random", <<v[1], v[2], v[3]>>, sz)

VonMises_random(a, p, sz) ==
    LET v == draw_values(<<a.mu, a.kappa>>, p)
    IN  generate_samples("stats.vonmises.rvs", <<v[1], v[2]>>, sz)

(***************************************************************************)
(* A distribution: constructed once from its arguments, then asked for     *)
(* logp at some values and for samples.                                    *)
(***************************************************************************)
Classes == {"Uniform", "Flat", "Normal", "HalfNormal", "Wald", "Beta", "Exponential",
            "Laplace", "Lognormal", "StudentT", "Pareto", "Cauchy", "HalfCauchy",
            "Gamma", "InverseGamma", "ChiSquared", "Weibull", "ExGaussian", "VonMises"}

\* the arguments of each constructor, in the order of its signature
KwOf(c) ==
    CASE c = "Uniform"      -> Nums \X Nums
      [] c = "Flat"         -> {<<>>}
      [] c = "Normal"       -> Nums \X OptTauNums \X OptNums
      [] c = "HalfNormal"   -> OptTauNums \X OptNums
      [] c = "Wald"         -> OptNums \X OptNums \X OptNums \X Nums
      [] c = "Beta"         -> OptNums \X OptNums \X OptNums \X OptNums
      [] c = "Exponential"  -> {<<x>> : x \in Nums}
      [] c = "Laplace"      -> Nums \X Nums
      [] c = "Lognormal"    -> Nums \X Nums
      [] c = "StudentT"     -> Nums \X Nums \X OptTauNums \X OptNums
      [] c = "Pareto"       -> Nums \X Nums
      [] c = "Cauchy"       -> Nums \X Nums
      [] c = "HalfCauchy"   -> {<<x>> : x \in Nums}
      [] c = "Gamma"        -> OptNums \X OptNums \X OptNums \X OptNums
      [] c = "InverseGamma" -> Nums \X Nums
      [] c = "ChiSquared"   -> {<<x>> : x \in Nums}
      [] c = "Weibull"      -> Nums \X Nums
      [] c = "ExGaussian"   -> Nums \X Nums \X Nums
      [] c = "VonMises"     -> Nums \X Nums

\* cls(*kw): the __init__ of the class
New(c, kw) ==
    CASE c = "Uniform"      -> Uniform_init(kw)
      [] c = "Flat"         -> Flat_init(kw)
      [] c = "Normal"       -> Normal_init(kw)
      [] c = "HalfNormal"   -> HalfNormal_init(kw)
      [] c = "Wald"         -> Wald_init(kw)
      [] c = "Beta"         -> Beta_init(kw)
      [] c = "Exponential"  -> Exponential_init(kw)
      [] c = "Laplace"      -> Laplace_init(kw)
      [] c = "Lognormal"    -> Lognormal_init(kw)
      [] c = "StudentT"     -> StudentT_init(kw)
      [] c = "Pareto"       -> Pareto_init(kw)
      [] c = "Cauchy"       -> Cauchy_init(kw)
      [] c = "HalfCauchy"   -> HalfCauchy_init(kw)
      [] c = "Gamma"        -> Gamma_init(kw)
      [] c = "InverseGamma" -> InverseGamma_init(kw)
      [] c = "ChiSquared"   -> ChiSquared_init(kw)
      [] c = "Weibull"      -> Weibull_init(kw)
      [] c = "ExGaussian"   -> ExGaussian_init(kw)
      [] c = "VonMises"     -> VonMises_init(kw)

\* self.logp(value): the method the class defines or inherits
LogpOf(c, a, x) ==
    CASE c = "Uniform"      -> Uniform_logp(a, x)
      [] c = "Flat"         -> Flat_logp(a, x)
      [] c = "Normal"       -> Normal_logp(a, x)
      [] c = "HalfNormal"   -> HalfNormal_logp(a, x)
      [] c = "Wald"         -> Wald_logp(a, x)
      [] c = "Beta"         -> Beta_logp(a, x)
      [] c = "Exponential"  -> Exponential_logp(a, x)
      [] c = "Laplace"      -> Laplace_logp(a, x)
      [] c = "Lognormal"    -> Lognormal_logp(a, x)
      [] c = "StudentT"     -> StudentT_logp(a, x)
      [] c = "Pareto"       -> Pareto_logp(a, x)
      [] c = "Cauchy"       -> Cauchy_logp(a, x)
      [] c = "HalfCauchy"   -> HalfCauchy_logp(a, x)
      [] c = "Gamma"        -> Gamma_logp(a, x)
      [] c = "InverseGamma" -> InverseGamma_logp(a, x)
      [] c = "ChiSquared"   -> Gamma_logp(a, x)
      [] c = "Weibull"      -> Weibull_logp(a, x)
      [] c = "ExGaussian"   -> ExGaussian_logp(a, x)
      [] c = "VonMises"     -> VonMises_logp(a, x)

\* self.random(point, size): the method the class defines or inherits
RandomOf(c, a, p, sz) ==
    CASE c = "Uniform"      -> Uniform_random(a, p, sz)
      [] c = "Flat"         -> Flat_random(a, p, sz)
      [] c = "Normal"       -> Normal_random(a, p, sz)
      [] c = "HalfNormal"   -> HalfNormal_random(a, p, sz)
      [] c = "Wald"         -> Wald_random(a, p, sz)
      [] c = "Beta"         -> Beta_random(a, p, sz)
      [] c = "Exponential"  -> Exponential_random(a, p, sz)
      [] c = "Laplace"      -> Laplace_random(a, p, sz)
      [] c = "Lognormal"    -> Lognormal_random(a, p, sz)
      [] c = "StudentT"     -> StudentT_random(a, p, sz)
      [] c = "Pareto"       -> Pareto_random(a, p, sz)
      [] c = "Cauchy"       -> Cauchy_random(a, p, sz)
      [] c = "HalfCauchy"   -> HalfCauchy_random(a, p, sz)
      [] c = "Gamma"        -> Gamma_random(a, p, sz)
      [] c = "InverseGamma" -> InverseGamma_random(a, p, sz)
      [] c = "ChiSquared"   -> Gamma_random(a, p, sz)
      [] c = "Weibull"      -> Weibull_random(a, p, sz)
      [] c = "ExGaussian"   -> ExGaussian_random(a, p, sz)
      [] c = "VonMises"     -> VonMises_random(a, p, sz)

(***************************************************************************)
(* Bounded(distribution, lower, upper, transform='infer', *args, **kwargs) *)
(*                                                                         *)
(* The inner distribution is a Normal (a Continuous, no transform) or a    *)
(* HalfCauchy (a PositiveContinuous, transforms.log).  default() belongs   *)
(* to the base class: the value it gives for the inner distribution is an  *)
(* input, the last of the arguments.                                       *)
(***************************************************************************)
\* a transform of the transforms module, by its name and its arguments
Transform(k, a) == [k |-> k, a |-> a]
interval(lo, up) == Transform("interval", <<lo, up>>)
lowerbound(lo) == Transform("lowerbound", <<lo>>)
upperbound(up) == Transform("upperbound", <<up>>)
\* transform=None, and the tag 'infer' the argument defaults to
NoTransform == Transform("None", <<>>)
InferTag == Transform("'infer'", <<>>)

\* the transform the class of the inner distribution hands to its base
BaseTransform(c) ==
    IF c = "HalfCauchy" THEN Transform("log", <<>>) ELSE NoTransform

\* np.isinf(b)
isinf(b) == b.inf # 0
\* a finite bound as a number
NumOf(b) == PyInt(b.v)
\* x <= b and x >= b for a number x and a bound b
NumLeBound(x, b) == IF b.inf = 0 THEN NumGE(NumOf(b), x) ELSE b.inf = 1
NumGeBound(x, b) == IF b.inf = 0 THEN NumGE(x, NumOf(b)) ELSE b.inf = -1
\* x < b and x > b for a number x and a bound b
NumLtBound(x, b) == ~NumGeBound(x, b)
NumGtBound(x, b) == ~NumLeBound(x, b)

InnerDists == {[cls |-> "Normal", kw |-> <<Int0, NoneV, NoneV>>],
               [cls |-> "HalfCauchy", kw |-> <<Int1>>]}
\* distribution and its arguments, lower, upper, transform, and the value
\* of self.dist.default()
BoundedKw == InnerDists \X Bounds \X Bounds \X {InferTag, NoTransform} \X Nums

\* lines 1023-1026: self.dist, the attributes of the inner distribution
\* (__dict__.update(self.dist.__dict__): its transform, and no testval of
\* its own), and over them the arguments (__dict__.update(locals()))
Bounded_dict(kw, d) ==
    [distribution |-> kw[1].cls, lower |-> kw[2], upper |-> kw[3], transform |-> kw[4]]
    @@ [dist |-> [cls |-> kw[1].cls, a |-> d],
        transform |-> BaseTransform(kw[1].cls),
        testval |-> NoneV]

\* lines 1035-1038 overriding the test value only when the default is
\* strictly outside the bounds
Infer_interval_outside(s, default) ==
    IF ~isinf(s.lower) /\ ~isinf(s.upper)
    THEN [s EXCEPT
            !.transform = interval(s.lower, s.upper),
            !.testval = IF NumLtBound(default, s.lower) \/ NumGtBound(default, s.upper)
                        THEN Mul(PyFloat(1, 2), Add(NumOf(s.upper), NumOf(s.lower)))
                        ELSE @]
    ELSE s

\* lines 1035-1038: both bounds finite
Infer_interval(s, default) ==
    IF ~isinf(s.lower) /\ ~isinf(s.upper)
    THEN [s EXCEPT
            !.transform = interval(s.lower, s.upper),
            !.testval = IF NumLeBound(default, s.lower) \/ NumGeBound(default, s.upper)
                        THEN Mul(PyFloat(1, 2), Add(NumOf(s.upper), NumOf(s.lower)))
                        ELSE @]
    ELSE s

\* lines 1040-1043: only the lower bound finite
Infer_lowerbound(s, default) ==
    IF ~isinf(s.lower) /\ isinf(s.upper)
    THEN [s EXCEPT
            !.transform = lowerbound(s.lower),
            !.testval = IF NumLeBound(default, s.lower)
                        THEN Add(NumOf(s.lower), Int1) ELSE @]
    ELSE s

\* lines 1045-1048: only the upper bound finite
Infer_upperbound(s, default) ==
    IF isinf(s.lower) /\ ~isinf(s.upper)
    THEN [s EXCEPT
            !.transform = upperbound(s.upper),
            !.testval = IF NumGeBound(default, s.upper)
                        THEN Sub(NumOf(s.upper), Int1) ELSE @]
    ELSE s

\* lines 1022-1048; the mode copied at lines 1028-1029 is not modelled
Bounded_init(kw) ==
    LET d == New(kw[1].cls, kw[1].kw)
    IN  IF d.st # "ok" THEN Raise(d.st)
        ELSE IF kw[4] = InferTag
             THEN Return(Infer_upperbound(
                             Infer_lowerbound(
                                 Infer_interval(Bounded_dict(kw, d.v), kw[5]),
                                 kw[5]),
                             kw[5]))
             ELSE Return(Bounded_dict(kw, d.v))

\* lines 1071-1072: the two conditions Bounded.logp adds, value >= self.lower
\* and value <= self.upper
Bounded_conditions(x, lo, up) == <<NumGeBound(x, lo), NumLeBound(x, up)>>

Bounded_logp(a, x) ==
    bound(LogpOf(a.dist.cls, a.dist.a, x), Bounded_conditions(x, a.lower, a.upper))

\* the sizes the random method of a constructed distribution is asked for
CallSizes == {s \in Sizes : Prod(s) <= MaxCallSize}

NoLp == [k |-> "none", f |-> "", a |-> <<>>]

\* the Point of the caller: a mapping from the names of upstream variables
\* to their values (the parameters of the model are literals and read none)
APoint == [x |-> Int1]

LogpInit ==
    /\ \/ \E c \in Classes : \E kw \in KwOf(c) :
             self = [cls |-> c, kw |-> kw, st |-> "new", a |-> <<>>]
       \/ \E kw \in BoundedKw :
             self = [cls |-> "Bounded", kw |-> kw, st |-> "new", a |-> <<>>]
    /\ value = NoneV
    /\ lp = NoLp
    /\ point = APoint
    /\ rnd = NoCall

\* no distribution is under construction
LogpIdle ==
    /\ self = [cls |-> "none", kw |-> <<>>, st |-> "none", a |-> <<>>]
    /\ value = NoneV
    /\ lp = NoLp
    /\ point = NoneV
    /\ rnd = NoCall

Construct ==
    /\ self.st = "new"
    /\ LET r == IF self.cls = "Bounded" THEN Bounded_init(self.kw)
                                         ELSE New(self.cls, self.kw)
       IN  self' = [self EXCEPT !.st = r.st, !.a = r.v]
    /\ UNCHANGED <<value, lp, point, rnd, resolverVars, boundedVars>>

\* self.logp(value), once no call is under way; value, lp and rnd hold the
\* last call made and what it gave, and the locals of a _random that has
\* returned are gone
Logp ==
    /\ self.st = "ok"
    /\ pc \in {"idle", "done"}
    /\ \E x \in Nums :
          /\ value' = x
          /\ lp' = IF self.cls = "Bounded" THEN Bounded_logp(self.a, x)
                                           ELSE LogpOf(self.cls, self.a, x)
    /\ rnd' = NoCall
    /\ pc' = "idle"
    /\ size' = <<>>
    /\ lower' = NegInf
    /\ upper' = PosInf
    /\ samples' = <<>>
    /\ i' = 0
    /\ n' = 0
    /\ sample' = <<>>
    /\ written' = {}
    /\ batches' = 0
    /\ result' = [shape |-> <<>>, data |-> <<>>]
    /\ UNCHANGED <<self, point, resolverVars>>

\* random writing a value it has resolved into the point it was given
Random_writes_point ==
    /\ self.st = "ok"
    /\ self.cls \in Classes
    /\ \E sz \in CallSizes : rnd' = RandomOf(self.cls, self.a, point, sz)
    /\ point' = [point EXCEPT !.x = Int0]
    /\ value' = NoneV
    /\ lp' = NoLp
    /\ UNCHANGED <<self, resolverVars, boundedVars>>

\* self.random(point, size) of a distribution that is not a Bounded, with
\* the point of the caller
Random ==
    /\ self.st = "ok"
    /\ self.cls \in Classes
    /\ \E sz \in CallSizes : rnd' = RandomOf(self.cls, self.a, point, sz)
    /\ value' = NoneV
    /\ lp' = NoLp
    /\ UNCHANGED <<self, point, resolverVars, boundedVars>>

\* lines 1064-1068, Bounded.random(point, size), once no call is under way:
\* the bounds are resolved and _random is entered with them
Bounded_random ==
    /\ self.st = "ok"
    /\ self.cls = "Bounded"
    /\ pc \in {"idle", "done"}
    /\ \E sz \in CallSizes :
          LET v == draw_values(<<self.a.lower, self.a.upper>>, point)
          IN  /\ lower' = v[1]
              /\ upper' = v[2]
              /\ size' = sz
    /\ pc' = "call"
    /\ samples' = <<>>
    /\ i' = 0
    /\ n' = 0
    /\ sample' = <<>>
    /\ written' = {}
    /\ batches' = 0
    /\ result' = [shape |-> <<>>, data |-> <<>>]
    /\ value' = NoneV
    /\ lp' = NoLp
    /\ rnd' = NoCall
    /\ UNCHANGED <<self, point, resolverVars>>

(***************************************************************************)
(* Specifications: the resolvers, one call of Bounded._random, and the     *)
(* construction and logp of a distribution.                                *)
(***************************************************************************)
Init == ResolverInit /\ BoundedIdle /\ LogpIdle
Next ==
    \/ Call_get_tau_sd
    \/ Call_Beta_get_alpha_beta
    \/ Call_Gamma_get_alpha_beta
    \/ Call_Wald_get_mu_lam_phi
    \/ Call_Wald_again
Spec == Init /\ [][Next]_vars

InitBounded == ResolverIdle /\ BoundedInit /\ LogpIdle
NextBounded ==
    \/ Enter
    \/ Draw
    \/ Store
    \/ RandomReturn
SpecBounded == InitBounded /\ [][NextBounded]_vars
\* a call that is under way goes on: the interpreter takes the next step
SpecBoundedFair == SpecBounded /\ WF_vars(NextBounded)

InitLogp == ResolverIdle /\ BoundedIdle /\ LogpInit
NextLogp ==
    \/ Construct
    \/ Logp
    \/ Random
    \/ Bounded_random
    \/ Enter
    \/ Draw
    \/ Store
    \/ RandomReturn
SpecLogp == InitLogp /\ [][NextLogp]_vars

(***************************************************************************)
(* Properties of the resolvers (specification Spec).                       *)
(***************************************************************************)
IsAlphaBetaCall == fn \in {"Beta.get_alpha_beta", "Gamma.get_alpha_beta"} /\ ret.st # "none"
AlphaBetaGiven == ~IsNone(args[1]) /\ ~IsNone(args[2])
MuSdGiven == ~IsNone(args[3]) /\ ~IsNone(args[4])

\* C1: Beta and Gamma construction fails whenever alpha and beta are both
\* supplied and mu and sd are both supplied as well; no pair is produced.
C1_ConflictingGroupsRaise ==
    (IsAlphaBetaCall /\ AlphaBetaGiven /\ MuSdGiven) => (Raised(ret) /\ ret.v = <<>>)

\* C2: Beta and Gamma construction fails with an error and returns no
\* (alpha, beta) pair whenever neither {alpha, beta} nor {mu, sd} is
\* completely supplied.
C2_NoCompleteGroupRaises ==
    (IsAlphaBetaCall /\ ~AlphaBetaGiven /\ ~MuSdGiven) => (Raised(ret) /\ ret.v = <<>>)

\* one member of each group supplied to Gamma.get_alpha_beta, which has raised
C2_Witness ==
    /\ fn = "Gamma.get_alpha_beta"
    /\ ~IsNone(args[1]) /\ IsNone(args[2]) /\ IsNone(args[3]) /\ ~IsNone(args[4])
    /\ ret.st = "ValueError"

IsWaldCall == fn = "Wald.get_mu_lam_phi" /\ ret.st # "none"
\* the parameters supplied to Wald.get_mu_lam_phi
WaldGiven == {k \in 1..3 : ~IsNone(args[k])}
WaldLegal == WaldGiven \in {{1}, {1, 2}, {1, 3}, {2, 3}}
\* the divisor of the value the resolver derives is zero: mu in 1. / mu and
\* lam / mu, phi in lam / phi
WaldZeroDivisor ==
    \/ WaldGiven \in {{1}, {1, 2}} /\ IsZero(args[1])
    \/ WaldGiven = {2, 3} /\ IsZero(args[3])

\* C3 as stated: resolution succeeds if and only if the supplied parameters
\* are exactly {mu}, {mu, lam}, {mu, phi} or {lam, phi}; every other pattern
\* raises and returns no triple.
C3_SucceedsIffLegal ==
    IsWaldCall => /\ (ret.st = "ok") <=> WaldLegal
                  /\ ~WaldLegal => (Raised(ret) /\ ret.v = <<>>)

\* C3 amended: every other pattern raises ValueError and returns no triple;
\* a legal pattern returns a triple unless the divisor of the derived value
\* is a zero, and then the division raises ZeroDivisionError.
C3_SucceedsIffLegalAndDivisible ==
    IsWaldCall => /\ (ret.st = "ok") <=> (WaldLegal /\ ~WaldZeroDivisor)
                  /\ ~WaldLegal => (ret.st = "ValueError" /\ ret.v = <<>>)
                  /\ (WaldLegal /\ WaldZeroDivisor) =>
                         (ret.st = "ZeroDivisionError" /\ ret.v = <<>>)

\* all three parameters supplied, none of them zero: the resolver has raised
C3_Witness ==
    /\ IsWaldCall
    /\ WaldGiven = {1, 2, 3}
    /\ \A k \in 1..3 : ~IsZero(args[k])
    /\ ret.st = "ValueError"

IsTauSdCall == fn = "get_tau_sd" /\ ret.st # "none"

\* C4 as stated: get_tau_sd raises whenever both tau and sd are supplied,
\* returns (1, 1) whenever neither is, and never raises when at most one is.
C4_RaisesOnlyOnConflict ==
    IsTauSdCall =>
        /\ (~IsNone(args[1]) /\ ~IsNone(args[2])) => Raised(ret)
        /\ (IsNone(args[1]) /\ IsNone(args[2])) =>
               (ret.st = "ok" /\ NumEq(ret.v[1], Int1) /\ NumEq(ret.v[2], Int1))
        /\ (IsNone(args[1]) \/ IsNone(args[2])) => ~Raised(ret)

\* C4 amended: get_tau_sd raises ValueError whenever both are supplied,
\* returns (1, 1) whenever neither is, and returns a pair when exactly one
\* is supplied and it is not zero; a zero raises ZeroDivisionError.
C4_RaisesOnConflictOrZero ==
    IsTauSdCall =>
        /\ (~IsNone(args[1]) /\ ~IsNone(args[2])) => ret.st = "ValueError"
        /\ (IsNone(args[1]) /\ IsNone(args[2])) =>
               (ret.st = "ok" /\ NumEq(ret.v[1], Int1) /\ NumEq(ret.v[2], Int1))
        /\ \A k \in 1..2 :
               (~IsNone(args[k]) /\ IsNone(args[3 - k])) =>
                   IF IsZero(args[k]) THEN ret.st = "ZeroDivisionError"
                                      ELSE ret.st = "ok"

\* both tau and sd supplied, neither zero: get_tau_sd has raised
C4_Witness ==
    /\ IsTauSdCall
    /\ ~IsNone(args[1]) /\ ~IsZero(args[1])
    /\ ~IsNone(args[2]) /\ ~IsZero(args[2])
    /\ ret.st = "ValueError"

\* the numbers of two triples are the same
SameTriple(u, w) == \A k \in 1..3 : NumEq(u[k], w[k])

\* C5: every triple (mu, lam, phi) that Wald.get_mu_lam_phi resolves has
\* lam = mu * phi; giving the triple back through any of the legal
\* combinations resolves to the same triple; and mu alone resolves to
\* (mu, 1, 1/mu).
C5_CanonicalTriple ==
    (IsWaldCall /\ ret.st = "ok") =>
        /\ NumEq(ret.v[2], Mul(ret.v[1], ret.v[3]))
        /\ again.r.st = "ok" => SameTriple(again.r.v, ret.v)
        /\ WaldGiven = {1} =>
               /\ NumEq(ret.v[1], args[1])
               /\ NumEq(ret.v[2], Int1)
               /\ NumEq(Mul(ret.v[1], ret.v[3]), Int1)

\* (mu, lam) with lam # mu resolved, then given back as (mu, phi)
C5_Witness ==
    /\ IsWaldCall
    /\ WaldGiven = {1, 2}
    /\ ~NumEq(args[1], args[2])
    /\ ret.st = "ok"
    /\ again.c = "mu_phi"
    /\ again.r.st = "ok"

\* the values a resolver call derived, as opposed to those it was given
DerivedValues ==
    CASE fn = "get_tau_sd" -> {ret.v[1], ret.v[2]}
      [] fn \in {"Beta.get_alpha_beta", "Gamma.get_alpha_beta"} ->
            IF AlphaBetaGiven THEN {} ELSE {ret.v[1], ret.v[2]}
      [] fn = "Wald.get_mu_lam_phi" -> {ret.v[k] : k \in (1..3) \ WaldGiven}
      [] OTHER -> {}

\* C6: every value a parameter resolver derives is a float, even when all
\* the supplied arguments are integers.
C6_DerivedValuesAreFloat ==
    ret.st = "ok" => \A x \in DerivedValues : IsFloat(x)

(***************************************************************************)
(* Properties of Bounded._random (specification SpecBounded).              *)
(***************************************************************************)
\* the number of values asked for
Requested == Prod(size)

\* C7: every value of the array Bounded._random returns lies in [lower, upper].
C7_ReturnedValuesInRange ==
    pc = "done" =>
        \A k \in 1..Len(result.data) :
            GeBound(result.data[k], lower) /\ LeBound(result.data[k], upper)

\* a call with finite bounds has returned two values or more after a batch
\* that did not fill the buffer
C7_Witness ==
    /\ pc = "done"
    /\ lower.inf = 0 /\ upper.inf = 0
    /\ Len(result.data) >= 2
    /\ batches >= 2

\* C8: when Bounded._random returns for a requested size N, the result holds
\* exactly N values, every slot was written with an accepted draw, and the
\* fill index is N.
C8_ReturnsFilled ==
    pc = "done" =>
        /\ Len(result.data) = Requested
        /\ result.shape = size
        /\ written = 1..Requested
        /\ \A k \in 1..Len(result.data) : InRange(result.data[k], lower, upper)
        /\ i = Requested

\* a call for three values has returned after more than one batch
C8_Witness ==
    /\ pc = "done"
    /\ Requested = MaxSize
    /\ batches >= 2

\* C9: there is no cap on the batches: a batch without an in-range value
\* leaves the buffer, the fill index and the batch size as they were and
\* the loop goes on to draw again; the call has not returned while no draw
\* has been accepted (and a value was asked for).
C9_RejectedBatchesLoopOn ==
    /\ [](Requested > 0 /\ i = 0 => pc \in {"call", "while", "select"})
    /\ [][(pc = "select" /\ Select(sample, lower, upper) = <<>>) =>
             /\ pc' = "while"
             /\ WhileCond(i', samples')
             /\ <<samples, i, n>>' = <<samples, i, n>>]_vars

\* MaxBatches batches were drawn, none held an in-range value, and the loop
\* is about to draw again
C9_Witness ==
    /\ pc = "while"
    /\ batches = MaxBatches
    /\ i = 0
    /\ Requested > 0
    /\ written = {}

(***************************************************************************)
(* Properties of logp (specification SpecLogp).                            *)
(***************************************************************************)
\* the attributes each class documents as positive (scale, rate, shape,
\* precision), from the Parameters section of its docstring
PositiveParams(c) ==
    CASE c \in {"Normal", "HalfNormal"} -> {"tau", "sd"}
      [] c = "Wald" -> {"mu", "lam", "phi"}
      [] c \in {"Beta", "Gamma", "InverseGamma", "ChiSquared", "Weibull"} ->
            {"alpha", "beta"}
      [] c = "Exponential" -> {"lam"}
      [] c = "Laplace" -> {"b"}
      [] c = "Lognormal" -> {"tau"}
      [] c = "StudentT" -> {"nu", "lam", "sd"}
      [] c = "Pareto" -> {"alpha", "m"}
      [] c \in {"Cauchy", "HalfCauchy"} -> {"beta"}
      [] c = "ExGaussian" -> {"sigma", "nu"}
      [] OTHER -> {}

\* C10: for every distribution but Flat, logp with a scale, rate, shape or
\* precision parameter that is not positive is the sentinel.
C10_NonPositiveParameterGivesSentinel ==
    (self.st = "ok" /\ lp.k # "none" /\ self.cls # "Flat"
        /\ \E q \in PositiveParams(self.cls) : ~Positive(self.a[q]))
    => lp = Sentinel

\* every distribution but Flat and Laplace guards the parameters it documents as positive
AllButLaplaceGuarded ==
    (self.st = "ok" /\ lp.k # "none" /\ self.cls \notin {"Flat", "Laplace"}
        /\ \E q \in PositiveParams(self.cls) : ~Positive(self.a[q]))
    => lp = Sentinel

\* C11: for every lower < upper and every value, Uniform.logp is the sentinel
\* if and only if value < lower or value > upper; on lower <= value <= upper,
\* the endpoints included, it is -log(upper - lower), whatever the value; a
\* value out of the support raises nothing.
C11_UniformLogp ==
    (self.cls = "Uniform" /\ self.st = "ok" /\ lp.k # "none"
        /\ NumGT(self.a.upper, self.a.lower))
    => /\ (lp = Sentinel) <=> (NumGT(self.a.lower, value) \/ NumGT(value, self.a.upper))
       /\ (NumGE(value, self.a.lower) /\ NumGE(self.a.upper, value))
              => lp = Density("Uniform", <<Sub(self.a.upper, self.a.lower)>>)

\* Uniform.logp was asked at the lower endpoint of a support lower < upper
\* and gave the density
C11_Witness ==
    /\ self.cls = "Uniform" /\ self.st = "ok"
    /\ NumGT(self.a.upper, self.a.lower)
    /\ lp.k = "density"
    /\ NumEq(value, self.a.lower)

\* the Gamma that ChiSquared(nu) stands for: Gamma(alpha = nu / 2, beta = 1 / 2)
GammaOfNu == Gamma_init(<<TrueDiv(self.kw[1], Int2), PyFloat(1, 2), NoneV, NoneV>>)

\* C12: ChiSquared(nu) is Gamma(alpha = nu / 2, beta = 1 / 2): it is
\* constructed when that Gamma is, its canonical parameters are
\* alpha = nu / 2 and beta = 0.5, and for every value its logp, and for every
\* point and size its sampling path, are those of that Gamma.
C12_ChiSquaredIsGamma ==
    (self.cls = "ChiSquared" /\ self.st # "new") =>
        /\ self.st = GammaOfNu.st
        /\ self.st = "ok" =>
              /\ self.a.alpha = TrueDiv(self.kw[1], Int2)
              /\ self.a.beta = PyFloat(1, 2)
              /\ self.a.alpha = GammaOfNu.v.alpha /\ self.a.beta = GammaOfNu.v.beta
              /\ lp.k # "none" => lp = Gamma_logp(GammaOfNu.v, value)
              /\ rnd.st # "none" =>
                    /\ rnd.st = "ok"
                    /\ rnd = Gamma_random(GammaOfNu.v, point, rnd.v.size)

\* a ChiSquared with nu > 0 was asked for samples
C12_Witness ==
    /\ self.cls = "ChiSquared" /\ self.st = "ok"
    /\ Positive(self.kw[1])
    /\ rnd.st = "ok"
    /\ rnd.v.rvs = "stats.gamma.rvs"

\* C13: Flat.logp is zero for every value, never the sentinel, and
\* Flat.random raises for every point and every size: no sample is returned.
C13_FlatZeroAndUnsamplable ==
    (self.cls = "Flat" /\ self.st = "ok") =>
        /\ lp.k # "none" => (lp = zeros_like(value) /\ lp # Sentinel)
        /\ rnd.st # "none" => (Raised(rnd) /\ rnd.v = <<>>)

\* Flat.random was called and raised
C13_Witness ==
    /\ self.cls = "Flat" /\ self.st = "ok"
    /\ rnd.st = "ValueError"

\* the mean the docstring of InverseGamma gives: beta / (alpha - 1) for
\* alpha > 1, and no finite mean elsewhere
IntendedMean(alpha, beta) ==
    IF NumGT(alpha, Int1) THEN TrueDiv(beta, Sub(alpha, Int1)) ELSE PyInf

\* C15: for every alpha and every beta > 0 the construction of InverseGamma
\* succeeds, with mean = beta / (alpha - 1) if alpha > 1 and +inf otherwise
\* (+inf at alpha = 1 and at every alpha < 1).
C15_MeanForEveryAlpha ==
    (self.cls = "InverseGamma" /\ self.st # "new" /\ Positive(self.kw[2])) =>
        /\ self.st = "ok"
        /\ self.a.mean = IntendedMean(self.kw[1], self.kw[2])

\* where the construction of InverseGamma succeeds, the mean is the intended one
MeanWhereConstructed ==
    (self.cls = "InverseGamma" /\ self.st = "ok" /\ Positive(self.kw[2])) =>
        self.a.mean = IntendedMean(self.kw[1], self.kw[2])

\* the construction of InverseGamma raises at alpha = 1, 0 and -1 only
RaisesAtThreeAlphas ==
    (self.cls = "InverseGamma" /\ self.st # "new") =>
        (self.st = "ZeroDivisionError"
            <=> \E k \in {-1, 0, 1} : NumEq(self.kw[1], PyInt(k)))

(***************************************************************************)
(* Properties of a constructed distribution and of Bounded (SpecLogp).     *)
(***************************************************************************)
\* C14: a distribution is immutable after construction: every step of a
\* logp or random call, the batches of Bounded._random included, leaves the
\* attributes of the distribution (canonical parameters, bounds, transform,
\* moments) and the point passed to random as they were; what a call writes
\* is its own locals and its result.
C14_Immutable ==
    [][self.st = "ok" => (self' = self /\ point' = point)]_vars

\* the sampler of a constructed Bounded has returned a value after a batch
\* that was rejected
C14_Witness ==
    /\ self.cls = "Bounded" /\ self.st = "ok"
    /\ pc = "done"
    /\ batches >= 2
    /\ Len(result.data) = 1

\* a Bounded constructed with transform='infer'
IsInferred == self.cls = "Bounded" /\ self.st = "ok" /\ self.kw[4] = InferTag

\* the transform the declared bounds select
TransformOfBounds(lo, up) ==
    IF ~isinf(lo) /\ ~isinf(up) THEN interval(lo, up)
    ELSE IF ~isinf(lo) THEN lowerbound(lo)
    ELSE IF ~isinf(up) THEN upperbound(up)
    ELSE NoTransform

\* C16: the transform of a Bounded constructed with transform='infer' is
\* determined by the bounds alone: Interval(lower, upper) when both are
\* finite, lowerbound(lower) or upperbound(upper) when exactly one is, and
\* no transform when both are infinite (not the tag, and not the transform
\* of the inner distribution).
C16_TransformFromBounds ==
    IsInferred => self.a.transform = TransformOfBounds(self.kw[2], self.kw[3])

\* with a finite bound the transform is the one the bounds select
TransformFromFiniteBound ==
    (IsInferred /\ (~isinf(self.kw[2]) \/ ~isinf(self.kw[3])))
    => self.a.transform = TransformOfBounds(self.kw[2], self.kw[3])

\* with both bounds infinite the transform attribute is the tag 'infer'
TagLeftWithoutFiniteBound ==
    (IsInferred /\ isinf(self.kw[2]) /\ isinf(self.kw[3]))
    => self.a.transform = InferTag

\* lower < upper, for two bounds
BoundLT(lo, up) ==
    IF lo.inf = 0 /\ up.inf = 0 THEN lo.v < up.v
    ELSE lo.inf < up.inf

\* the test value the constructor overrides with
Override(lo, up) ==
    IF ~isinf(lo) /\ ~isinf(up) THEN TrueDiv(Add(NumOf(lo), NumOf(up)), Int2)
    ELSE IF ~isinf(lo) THEN Add(NumOf(lo), Int1)
    ELSE Sub(NumOf(up), Int1)

\* C20: after the construction of a Bounded with transform='infer',
\* lower < upper and a finite bound, the initial test value (the overriding
\* testval when one is set, the default of the inner distribution
\* otherwise) lies strictly inside (lower, upper); the override is the
\* midpoint when both bounds are finite, lower + 1 when only lower is,
\* upper - 1 when only upper is, and it is set exactly when the inner
\* default lies on or outside a finite bound.
C20_TestValueInside ==
    (IsInferred /\ BoundLT(self.kw[2], self.kw[3])
        /\ (~isinf(self.kw[2]) \/ ~isinf(self.kw[3])))
    => LET lo == self.kw[2]
           up == self.kw[3]
           default == self.kw[5]
           testval == self.a.testval
           initial == IF IsNone(testval) THEN default ELSE testval
       IN  /\ NumGtBound(initial, lo) /\ NumLtBound(initial, up)
           /\ ~IsNone(testval) <=>
                 \/ ~isinf(lo) /\ NumLeBound(default, lo)
                 \/ ~isinf(up) /\ NumGeBound(default, up)
           /\ ~IsNone(testval) => NumEq(testval, Override(lo, up))

\* a Bounded with two finite bounds lower < upper was constructed from an
\* inner default equal to the lower bound, and its test value was overridden
C20_Witness ==
    /\ IsInferred
    /\ ~isinf(self.kw[2]) /\ ~isinf(self.kw[3])
    /\ BoundLT(self.kw[2], self.kw[3])
    /\ NumEq(self.kw[5], NumOf(self.kw[2]))
    /\ ~IsNone(self.a.testval)

(***************************************************************************)
(* Further properties of Bounded._random (SpecBounded, SpecBoundedFair).   *)
(***************************************************************************)
\* a batch is drawn that holds an in-range value
AcceptingDraw == Draw /\ Select(sample', lower, upper) # <<>>
\* the inner distribution has a value in range
Feasible == \E v \in DrawVals : InRange(v, lower, upper)

\* C17: if in-range draws keep occurring (a batch with an in-range value is
\* drawn again and again as long as one can be), Bounded._random eventually
\* returns, for every requested size; for the size 0 it returns whatever
\* the draws are, and no batch is drawn.
C17_FairDrawsTerminate ==
    /\ (Feasible /\ SF_vars(AcceptingDraw)) => <>(pc = "done")
    /\ (Requested = 0) => <>(pc = "done")
    /\ [](Requested = 0 => batches = 0)

\* a call for MaxSize values has returned after MaxBatches batches or more
C17_Witness ==
    /\ pc = "done"
    /\ Requested = MaxSize
    /\ batches = MaxBatches
    /\ lower.inf = 0
    /\ Len(result.data) = MaxSize

\* C18: the sampler and the log-density of Bounded agree on what is in
\* range: _random keeps a draw v exactly when lower <= v <= upper, that is
\* when the two conditions Bounded.logp adds hold for v; a draw equal to
\* lower is kept, and so is a draw equal to upper.
C18_SamplerAgreesWithLogp ==
    pc = "select" =>
        \A k \in 1..Len(sample) :
            InRange(sample[k], lower, upper)
                <=> \A j \in 1..2 :
                       Bounded_conditions(PyInt(sample[k]), lower, upper)[j]

\* every draw the sampler keeps satisfies the conditions of Bounded.logp,
\* and a draw it rejects that satisfies them is equal to lower
SamplerDiffersAtLowerOnly ==
    pc = "select" =>
        \A k \in 1..Len(sample) :
            LET kept == InRange(sample[k], lower, upper)
                ok == \A j \in 1..2 :
                         Bounded_conditions(PyInt(sample[k]), lower, upper)[j]
            IN  /\ kept => ok
                /\ (ok /\ ~kept) => (lower.inf = 0 /\ sample[k] = lower.v)

\* C19: the loop invariant of Bounded._random.  At the head of every
\* iteration 0 <= i <= N and i + n = N for the buffer length N, so a batch
\* asks for exactly the unfilled slots; the accepted draws of a batch fit
\* in them (the assignment never raises), every accepted draw is written,
\* none past the end; i never decreases and a slot once filled is not
\* overwritten.
C19_LoopInvariant ==
    /\ [](pc = "while" => (0 <= i /\ i <= Len(samples) /\ i + n = Len(samples)))
    /\ [](pc = "select" =>
             /\ Len(sample) = Len(samples) - i
             /\ i + Len(Select(sample, lower, upper)) <= Len(samples))
    /\ [](pc # "raised")
    /\ [][/\ i' >= i
          /\ \A k \in written : k \in written' /\ samples'[k] = samples[k]
          /\ pc = "select" =>
                LET select == Select(sample, lower, upper)
                IN  /\ i' = i + Len(select)
                    /\ Len(samples') = Len(samples)
                    /\ \A j \in 1..Len(select) : samples'[i + j] = select[j]]_vars

\* the head of an iteration with the buffer filled in part
C19_Witness ==
    /\ pc = "while"
    /\ i > 0
    /\ i < Len(samples)
    /\ written = 1..i

(***************************************************************************)
(* The constraints of Wald.logp (SpecLogp).                                *)
(***************************************************************************)
\* a tuple of conditions with the j-th removed
Without(conditions, j) ==
    [k \in 1..(Len(conditions) - 1) |->
        IF k < j THEN conditions[k] ELSE conditions[k + 1]]

\* Wald.logp has been called with a value
WaldLogpCalled == self.cls = "Wald" /\ self.st = "ok" /\ lp # NoLp

\* Wald.logp of the distribution with the j-th constraint removed
Wald_logp_without(j) ==
    bound(Density("Wald", <<self.a.mu, self.a.lam, self.a.alpha, value>>),
          Without(Wald_conditions(self.a, value), j))

\* there are alpha and a value for which, of the five constraints, only
\* value - alpha > 0 fails
OnlyShiftedValueCanFail ==
    \E al \in Nums, x \in Nums :
        LET conditions == Wald_conditions([mu |-> Int1, lam |-> Int1,
                                           phi |-> Int1, alpha |-> al], x)
        IN  \A j \in 1..5 : conditions[j] <=> (j # 2)

\* C21: in Wald.logp the constraint value > 0 is redundant: for every value,
\* alpha, mu and lam the five constraints hold exactly when the four
\* without value > 0 hold, so removing it never changes which inputs yield
\* the sentinel; value - alpha > 0 is not redundant in that sense: there
\* are inputs where it alone fails.
C21_ValuePositiveRedundant ==
    /\ WaldLogpCalled =>
          /\ (lp = Sentinel) <=> (Wald_logp_without(1) = Sentinel)
          /\ lp = Wald_logp(self.a, value)
    /\ OnlyShiftedValueCanFail

\* Wald.logp was called with a value <= 0 on a distribution whose
\* parameters satisfy their constraints
C21_Witness ==
    /\ WaldLogpCalled
    /\ ~Wald_conditions(self.a, value)[1]
    /\ \A j \in 3..5 : Wald_conditions(self.a, value)[j]
    /\ lp = Sentinel

\* Wald.logp was called where only value - alpha > 0 fails: the sentinel
\* is returned, and would not be without that constraint
OnlyShiftedValueFails ==
    /\ WaldLogpCalled
    /\ \A j \in 1..5 : Wald_conditions(self.a, value)[j] <=> (j # 2)
    /\ lp = Sentinel
    /\ Wald_logp_without(2) # Sentinel

====
